---- MODULE Spec2Model ----
(***************************************************************************)
(* State-machine model of the 3D topology viewer:                          *)
(*   - TopologyStateService (the reactive topology store and its HTTP      *)
(*     requests),                                                          *)
(*   - ThreeSceneService (loaded models, port indicators, clicks, frames), *)
(*   - TopologyViewerComponent (the glue between the two).                 *)
(* Names (model ids, mesh names) are sequences of string tokens so that    *)
(* endsWith('_Indicator') is a computation on the name.                    *)
(* A nullable value is a sequence of length at most one.                   *)
(***************************************************************************)
EXTENDS Integers, Sequences, FiniteSets, Bags, TLC

VARIABLES
    currentTopology,  \* _currentTopology : BehaviorSubject<TopologyLayout | null>
    selectedObject,   \* _selectedObject  : BehaviorSubject<SelectedObjectInfo | null>
    isLoading,        \* _isLoading       : BehaviorSubject<boolean>
    requests,         \* HTTP requests in flight (subscribed, not yet completed)
    alive,            \* a TopologyViewerComponent exists (between ngOnInit and ngOnDestroy)
    rendering,        \* a requestAnimationFrame loop has been started
    sceneChildren,    \* bag of the model roots added to the current THREE.Scene
    loadedModels,     \* ThreeSceneService.loadedModels
    loading,          \* addModelToScene calls suspended at `await loader.loadAsync`
    cables,           \* ThreeSceneService.cables
    cableLoading,     \* connectCable calls suspended at `await loader.loadAsync`
    sceneCables,      \* bag of the cable meshes added to the current THREE.Scene
    now,              \* Date.now()
    lastOp,           \* name of the operation that produced this state
    lastCase,         \* the branch that operation took
    calls,            \* the scene-service calls of the last ngOnInit or frame, in order
    heap,             \* object-level view: the JavaScript objects allocated so far
    topoRef,          \* object-level view: the object _currentTopology holds
    emitted           \* object-level view: the objects emitted so far, in order

vars == <<currentTopology, selectedObject, isLoading, requests, alive, rendering,
          sceneChildren, loadedModels, loading, cables, cableLoading, sceneCables,
          now, lastOp, lastCase, calls, heap, topoRef, emitted>>

storeVars == <<currentTopology, selectedObject, isLoading, requests>>
sceneVars == <<sceneChildren, loadedModels, loading, cables, cableLoading, sceneCables>>
heapVars == <<heap, topoRef, emitted>>

----------------------------------------------------------------------------
(* Bounds of the model *)

MaxModels == 2      \* models in a topology
MaxConns == 1       \* connections in a topology
MaxRequests == 1    \* HTTP requests in flight
MaxLoads == 2       \* asset loads in flight
MaxCableLoads == 1   \* connectCable calls suspended at once
MaxRoots == 2        \* model roots in one scene, where roots can pile up
MaxCableMeshes == 1  \* cable meshes in one scene
MaxTicks == 1       \* clock advances
StartTime == 1000   \* Date.now() when the page starts
TickMs == 600       \* milliseconds per clock advance

BLINK_INTERVAL == 500

----------------------------------------------------------------------------
(* Nullable values and names *)

None == <<>>
Some(x) == <<x>>
IsSome(o) == o # <<>>
Val(o) == o[1]

EndsWith(name, suffix) == Len(name) > 0 /\ name[Len(name)] = suffix
Indicator(p) == <<p, "_Indicator">>
Attach(p) == <<p, "_Attach">>

M1 == <<"m1">>
M2 == <<"m2">>
M3 == <<"m3">>

Port(name, status, blinking) == [name |-> name, status |-> status, blinking |-> blinking]

Model(id, url, ports) == [id |-> id, assetUrl |-> url, ports |-> ports]

Conn(id, sm, sp, tm, tp) ==
    [id |-> id,
     source |-> [modelId |-> sm, portAttachName |-> sp],
     target |-> [modelId |-> tm, portAttachName |-> tp]]

SwitchUrl == "assets/models/Switch_ModelA.glb"
RouterUrl == "assets/models/Router_ModelB.glb"

\* Layouts the backend can answer with.
TopoMain ==
    [id |-> "main", name |-> "Main",
     models |-> << Model(M1, SwitchUrl, << Port(Indicator("P1"), "active", TRUE) >>),
                   Model(M2, RouterUrl, << Port(Indicator("P1"), "inactive", TRUE) >>) >>,
     connections |-> << Conn(<<"c1">>, M1, Attach("P1"), M2, Attach("P1")) >>]

TopoLab ==
    [id |-> "lab", name |-> "Lab",
     models |-> << Model(M2, RouterUrl, << Port(Indicator("P1"), "error", FALSE) >>) >>,
     connections |-> << >>]

ServerTopologies == {TopoMain, TopoLab}
LayoutIds == {"main", "lab"}

\* Arguments callers pass to the store.
NewModels == { Model(M2, RouterUrl, << Port(Indicator("P1"), "active", FALSE) >>),
               Model(M3, SwitchUrl, << >>) }
NewConns == { Conn(<<"c2">>, M2, Attach("P1"), M3, Attach("P1")),
              Conn(<<>>, M1, Attach("P1"), M1, Attach("P1")) }
ModelIds == {M1, M2, M3}
PortNames == {Indicator("P1"), Indicator("P2")}
CableIds == {<<"c1">>, <<"c2">>}

----------------------------------------------------------------------------
(* TopologyStateService: the pure part of each update *)

getFallbackTopology ==
    [id |-> "fallback-layout", name |-> "Fallback Topology (Error Loading)",
     models |-> << >>, connections |-> << >>]

\* findIndex, 1-based: `test` holds the callback's answer for each element;
\* the first index it accepts, 0 when there is none
FindIndex(test) ==
    IF \E i \in 1..Len(test) : test[i]
    THEN CHOOSE i \in 1..Len(test) : test[i] /\ \A j \in 1..(i-1) : ~test[j]
    ELSE 0

\* variant: the new model is put in front
addModelInstanceTopo_Prepend(t, model) ==
    [t EXCEPT !.models = <<model>> \o t.models]

addModelInstanceTopo(t, model) ==
    [t EXCEPT !.models = Append(t.models, model)]

\* variant: connections are filtered by their source only
removeModelInstanceTopo_SourceOnly(t, modelId) ==
    [t EXCEPT !.models = SelectSeq(t.models, LAMBDA m : m.id # modelId),
              !.connections = SelectSeq(t.connections,
                                 LAMBDA c : c.source.modelId # modelId)]

removeModelInstanceTopo(t, modelId) ==
    [t EXCEPT !.models = SelectSeq(t.models, LAMBDA m : m.id # modelId),
              !.connections = SelectSeq(t.connections,
                                 LAMBDA c : c.source.modelId # modelId
                                            /\ c.target.modelId # modelId)]

\* the topology updatePortState emits, or None when it emits nothing
updatePortStateTopo(t, modelId, portName, newStatus, newBlinking) ==
    LET modelIndex == FindIndex([i \in 1..Len(t.models) |-> t.models[i].id = modelId]) IN
    IF modelIndex = 0 THEN None
    ELSE LET portIndex == FindIndex([j \in 1..Len(t.models[modelIndex].ports) |->
                                       t.models[modelIndex].ports[j].name = portName]) IN
         IF portIndex = 0 THEN None
         ELSE Some([t EXCEPT !.models[modelIndex].ports[portIndex].status = newStatus,
                             !.models[modelIndex].ports[portIndex].blinking = newBlinking])

\* `cable_${Date.now()}_${Math.random()...}` when the connection has no id
CableIdFor(connection, t, rnd) ==
    IF connection.id = <<>> THEN <<"cable_", ToString(t), "_", rnd>> ELSE connection.id

addCableConnectionTopo(t, connection) ==
    [t EXCEPT !.connections = Append(t.connections, connection)]

removeCableConnectionTopo(t, cableId) ==
    [t EXCEPT !.connections = SelectSeq(t.connections, LAMBDA c : c.id # cableId)]

----------------------------------------------------------------------------
(* ThreeSceneService: loaded models, port indicators and cables.           *)
(* No component calls connectCable, so the cable registry is filled only   *)
(* in the specification that drives the service through its public API.    *)

\* indicator meshes / attach points of the GLB at a url (content of the assets)
AssetIndicators(url) ==
    IF url = SwitchUrl THEN {Indicator("P1"), Indicator("P2")} ELSE {Indicator("P1")}
AssetAttach(url) ==
    IF url = SwitchUrl THEN {Attach("P1"), Attach("P2")} ELSE {Attach("P1")}
BodyMesh == <<"Body">>
SceneName == <<>>

\* PortInfo as addModelToScene creates it: the optional fields are undefined
NewPortInfo ==
    [blinking |-> None, blinkOn |-> None, lastBlinkTime |-> None,
     currentState |-> None, color |-> "original", emissive |-> "original"]

NewModelEntry(url) ==
    [portIndicators |-> [p \in AssetIndicators(url) |-> NewPortInfo],
     portAttachPoints |-> AssetAttach(url)]

\* variant: the 'inactive' case keeps the blinking flag it was given
SetPortInfo_KeepBlinking(info, state, blinking) ==
    LET base == [info EXCEPT !.blinking = Some(blinking), !.currentState = Some(state)] IN
    CASE state = "active" ->
           [base EXCEPT !.color = "0x00ff00",
                        !.emissive = IF blinking THEN "0x003300" ELSE "0x008800"]
      [] state = "inactive" ->
           [base EXCEPT !.color = "0x808080", !.emissive = "0x000000"]
      [] state = "error" ->
           [base EXCEPT !.color = "0xff0000",
                        !.emissive = IF blinking THEN "0x330000" ELSE "0x880000"]
      [] OTHER ->
           [base EXCEPT !.color = state, !.emissive = "0x000000"]

\* the body of setPortState on one PortInfo
SetPortInfo(info, state, blinking) ==
    LET base == [info EXCEPT !.blinking = Some(blinking), !.currentState = Some(state)] IN
    CASE state = "active" ->
           [base EXCEPT !.color = "0x00ff00",
                        !.emissive = IF blinking THEN "0x003300" ELSE "0x008800"]
      [] state = "inactive" ->
           [base EXCEPT !.color = "0x808080", !.emissive = "0x000000",
                        !.blinking = Some(FALSE)]
      [] state = "error" ->
           [base EXCEPT !.color = "0xff0000",
                        !.emissive = IF blinking THEN "0x330000" ELSE "0x880000"]
      [] OTHER ->
           [base EXCEPT !.color = state, !.emissive = "0x000000"]

setPortState(lm, modelInstanceId, portName, state, blinking) ==
    IF modelInstanceId \notin DOMAIN lm
       \/ portName \notin DOMAIN lm[modelInstanceId].portIndicators
    THEN lm
    ELSE [lm EXCEPT ![modelInstanceId].portIndicators[portName] =
                        SetPortInfo(@, state, blinking)]

\* modelData.ports.forEach(portData => setPortState(...)) of the component
RECURSIVE ApplyPorts(_, _, _, _)
ApplyPorts(lm, id, ports, i) ==
    IF i > Len(ports) THEN lm
    ELSE ApplyPorts(setPortState(lm, id, ports[i].name, ports[i].status, ports[i].blinking),
                    id, ports, i + 1)

\* one PortInfo in updateBlinkingPorts
BlinkPortInfo(info, currentTime) ==
    IF IsSome(info.blinking) /\ Val(info.blinking)
    THEN IF info.lastBlinkTime = None \/ Val(info.lastBlinkTime) = 0
            \/ currentTime - Val(info.lastBlinkTime) > BLINK_INTERVAL
         THEN LET on == ~(IsSome(info.blinkOn) /\ Val(info.blinkOn)) IN
              [info EXCEPT
                 !.lastBlinkTime = Some(currentTime),
                 !.blinkOn = Some(on),
                 !.emissive =
                    IF on
                    THEN (IF info.currentState = Some("active") THEN "0x00ff00"
                          ELSE IF info.currentState = Some("error") THEN "0xff0000"
                          ELSE @)
                    ELSE (IF info.currentState = Some("active") THEN "0x003300"
                          ELSE IF info.currentState = Some("error") THEN "0x330000"
                          ELSE @)]
         ELSE info
    ELSE info

updateBlinkingPorts(lm, currentTime) ==
    [id \in DOMAIN lm |->
        [lm[id] EXCEPT !.portIndicators =
            [p \in DOMAIN lm[id].portIndicators |->
                BlinkPortInfo(lm[id].portIndicators[p], currentTime)]]]

\* updateScene: the blinking ports, then the cables (none registered)
updateScene(lm, currentTime) == updateBlinkingPorts(lm, currentTime)

\* the continuation of addModelToScene after a successful loadAsync:
\* each indicator is initialised through setPortState BEFORE the entry is
\* registered, so the call acts on whatever entry is registered already
RECURSIVE InitIndicators(_, _, _)
InitIndicators(lm, id, names) ==
    IF names = {} THEN lm
    ELSE LET p == CHOOSE x \in names : TRUE IN
         InitIndicators(setPortState(lm, id, p, "inactive", FALSE), id, names \ {p})

RegisterModel(lm, id, url) ==
    LET pre == InitIndicators(lm, id, AssetIndicators(url)) IN
    [x \in DOMAIN pre \cup {id} |-> IF x = id THEN NewModelEntry(url) ELSE pre[x]]

\* the topology subscription of ngOnInit over topology.models: a loaded id
\* returns at once and its ports are applied; any other id starts a load
RECURSIVE Subscribe(_, _, _, _)
Subscribe(models, i, lm, ld) ==
    IF i > Len(models) THEN [lm |-> lm, ld |-> ld]
    ELSE LET m == models[i] IN
         IF m.id \in DOMAIN lm
         THEN Subscribe(models, i + 1, ApplyPorts(lm, m.id, m.ports, 1), ld)
         ELSE Subscribe(models, i + 1, lm,
                        ld (+) SetToBag({[id |-> m.id, url |-> m.assetUrl, ports |-> m.ports]}))

\* String.replace(from, to) on a name: the first occurrence of the token
ReplaceToken(name, from, to) ==
    IF \E i \in 1..Len(name) : name[i] = from
    THEN LET i == CHOOSE k \in 1..Len(name) :
                     name[k] = from /\ \A j \in 1..(k - 1) : name[j] # from
         IN SubSeq(name, 1, i - 1) \o to \o SubSeq(name, i + 1, Len(name))
    ELSE name

StartsWith(name, prefix) ==
    Len(prefix) <= Len(name) /\ SubSeq(name, 1, Len(prefix)) = prefix

\* CableInfo with the color of the cable mesh's material
NewCableInfo(source, target) ==
    [source |-> source, target |-> target, color |-> "0x555555"]

\* the switch over portInfo.currentState in updateCableVisualsForPort
CableColor(currentState) ==
    IF currentState = Some("active") THEN "0x00aa00"
    ELSE IF currentState = Some("error") THEN "0xaa0000"
    ELSE "0x505050"

updateCableVisualsForPort(cb, lm, modelInstanceId, portIndicatorName) ==
    LET stem == ReplaceToken(portIndicatorName, "_Indicator", << >>)
        Concerns(cable) ==
            \/ cable.source.modelId = modelInstanceId
               /\ StartsWith(cable.source.portAttachName, stem)
            \/ cable.target.modelId = modelInstanceId
               /\ StartsWith(cable.target.portAttachName, stem)
    IN [c \in DOMAIN cb |->
          IF Concerns(cb[c])
             /\ modelInstanceId \in DOMAIN lm
             /\ portIndicatorName \in DOMAIN lm[modelInstanceId].portIndicators
          THEN [cb[c] EXCEPT !.color =
                   CableColor(lm[modelInstanceId].portIndicators[portIndicatorName].currentState)]
          ELSE cb[c]]

\* the cables after setPortState(modelInstanceId, portName, state, blinking)
\* on lm: its last statement recolors the cables of that port
setPortStateCables(cb, lm, modelInstanceId, portName, state, blinking) ==
    IF modelInstanceId \notin DOMAIN lm
       \/ portName \notin DOMAIN lm[modelInstanceId].portIndicators
    THEN cb
    ELSE updateCableVisualsForPort(
            cb, setPortState(lm, modelInstanceId, portName, state, blinking),
            modelInstanceId, portName)

\* the cables after ApplyPorts
RECURSIVE ApplyPortsCables(_, _, _, _, _)
ApplyPortsCables(cb, lm, id, ports, i) ==
    IF i > Len(ports) THEN cb
    ELSE ApplyPortsCables(
            setPortStateCables(cb, lm, id, ports[i].name, ports[i].status, ports[i].blinking),
            setPortState(lm, id, ports[i].name, ports[i].status, ports[i].blinking),
            id, ports, i + 1)

\* the cables after InitIndicators
RECURSIVE InitIndicatorsCables(_, _, _, _)
InitIndicatorsCables(cb, lm, id, names) ==
    IF names = {} THEN cb
    ELSE LET p == CHOOSE x \in names : TRUE IN
         InitIndicatorsCables(setPortStateCables(cb, lm, id, p, "inactive", FALSE),
                              setPortState(lm, id, p, "inactive", FALSE), id, names \ {p})

\* the cables after Subscribe
RECURSIVE SubscribeCables(_, _, _, _)
SubscribeCables(models, i, lm, cb) ==
    IF i > Len(models) THEN cb
    ELSE LET m == models[i] IN
         IF m.id \in DOMAIN lm
         THEN SubscribeCables(models, i + 1, ApplyPorts(lm, m.id, m.ports, 1),
                              ApplyPortsCables(cb, lm, m.id, m.ports, 1))
         ELSE SubscribeCables(models, i + 1, lm, cb)

\* onCanvasClick: walk from the hit object up its parents
RECURSIVE FindParentModel(_, _, _)
FindParentModel(chain, j, lm) ==
    IF j > Len(chain) THEN None
    ELSE IF chain[j] \in DOMAIN lm THEN Some(chain[j])
    ELSE FindParentModel(chain, j + 1, lm)

RECURSIVE WalkUp(_, _, _)
WalkUp(chain, i, lm) ==
    IF i > Len(chain)
    THEN [modelInstanceId |-> None, portName |-> None, objectType |-> None]
    ELSE IF chain[i] \in DOMAIN lm
    THEN [modelInstanceId |-> Some(chain[i]), portName |-> None, objectType |-> Some("device")]
    ELSE IF EndsWith(chain[i], "_Indicator")
    THEN [modelInstanceId |-> FindParentModel(chain, i + 1, lm),
          portName |-> Some(chain[i]), objectType |-> Some("port")]
    ELSE WalkUp(chain, i + 1, lm)

NonEmpty(o) == IsSome(o) /\ Val(o) # <<>>

\* the event onCanvasClick emits for a hit, or None
onCanvasClick(chain, lm) ==
    LET w == WalkUp(chain, 1, lm) IN
    IF NonEmpty(w.modelInstanceId)
       /\ (w.objectType = Some("device")
           \/ (NonEmpty(w.portName) /\ w.objectType = Some("port")))
    THEN Some([modelId |-> Val(w.modelInstanceId),
               objectName |-> IF NonEmpty(w.portName) THEN Val(w.portName)
                              ELSE Val(w.modelInstanceId),
               objectType |-> Val(w.objectType)])
    ELSE None

\* what a ray can hit: a mesh of a model root in the scene, or a cable mesh,
\* as its parent chain
Hits ==
    UNION { { <<part, obj.name, SceneName>> : part \in AssetIndicators(obj.url) \cup {BodyMesh} } :
            obj \in BagToSet(sceneChildren) }
    \cup { <<c, SceneName>> : c \in BagToSet(sceneCables) }

----------------------------------------------------------------------------
(* State after construction of the two root services; no component yet *)

EmptyFn == [x \in {} |-> x]

Init ==
    /\ currentTopology = None
    /\ selectedObject = None
    /\ isLoading = FALSE
    /\ requests = EmptyBag
    /\ alive = FALSE
    /\ rendering = FALSE
    /\ sceneChildren = EmptyBag
    /\ loadedModels = EmptyFn
    /\ loading = EmptyBag
    /\ cables = EmptyFn
    /\ cableLoading = EmptyBag
    /\ sceneCables = EmptyBag
    /\ now = StartTime
    /\ lastOp = "init"
    /\ lastCase = "init"
    /\ calls = << >>
    /\ heap = << >>
    /\ topoRef = None
    /\ emitted = << >>

BagSize(b) == BagCardinality(b)

\* _currentTopology.next(t): the store holds t and the component's topology
\* subscription, when there is one, runs on it
Emit(t) ==
    /\ currentTopology' = Some(t)
    /\ IF alive
       THEN LET r == Subscribe(t.models, 1, loadedModels, loading) IN
            /\ BagSize(r.ld) <= MaxLoads
            /\ loadedModels' = r.lm
            /\ loading' = r.ld
            /\ cables' = SubscribeCables(t.models, 1, loadedModels, cables)
            /\ UNCHANGED <<sceneChildren, cableLoading, sceneCables>>
       ELSE UNCHANGED sceneVars

\* A request in flight is its method and url (`${apiUrl}/layouts/${id}`). The
\* backend is outside the repository and its answer is unconstrained, so the
\* body of a PUT is read by nothing modelled here and is not carried.
GetRequest(layoutId) == [method |-> "GET", layoutId |-> layoutId]
PutRequest(t) == [method |-> "PUT", layoutId |-> t.id]

----------------------------------------------------------------------------
(* TopologyStateService operations *)

loadTopology(layoutId) ==
    /\ BagSize(requests) < MaxRequests
    /\ isLoading' = TRUE
    /\ requests' = requests (+) SetToBag({GetRequest(layoutId)})
    /\ lastOp' = "loadTopology"
    /\ calls' = << >>
    /\ UNCHANGED heapVars
    /\ lastCase' = "sent"
    /\ UNCHANGED <<currentTopology, selectedObject, alive, rendering, sceneVars, now>>

\* the GET answers: tap(next(topology)), then isLoading false
loadTopologySuccess(req, topology) ==
    /\ req.method = "GET" /\ BagIn(req, requests)
    /\ requests' = requests (-) SetToBag({req})
    /\ Emit(topology)
    /\ isLoading' = FALSE
    /\ lastOp' = "loadTopologyDone"
    /\ calls' = << >>
    /\ UNCHANGED heapVars
    /\ lastCase' = "ok"
    /\ UNCHANGED <<selectedObject, alive, rendering, now>>

\* the GET fails: catchError(next(fallback)), then isLoading false
\* variant: the failure path leaves isLoading as it is
loadTopologyError_StillLoading(req) ==
    /\ req.method = "GET" /\ BagIn(req, requests)
    /\ requests' = requests (-) SetToBag({req})
    /\ Emit(getFallbackTopology)
    /\ isLoading' = isLoading
    /\ lastOp' = "loadTopologyDone"
    /\ calls' = << >>
    /\ UNCHANGED heapVars
    /\ lastCase' = "error"
    /\ UNCHANGED <<selectedObject, alive, rendering, now>>

loadTopologyError(req) ==
    /\ req.method = "GET" /\ BagIn(req, requests)
    /\ requests' = requests (-) SetToBag({req})
    /\ Emit(getFallbackTopology)
    /\ isLoading' = FALSE
    /\ lastOp' = "loadTopologyDone"
    /\ calls' = << >>
    /\ UNCHANGED heapVars
    /\ lastCase' = "error"
    /\ UNCHANGED <<selectedObject, alive, rendering, now>>

saveCurrentTopology ==
    /\ lastOp' = "saveCurrentTopology"
    /\ calls' = << >>
    /\ UNCHANGED heapVars
    /\ lastCase' = IF currentTopology = None THEN "none" ELSE "sent"
    /\ IF currentTopology = None
       THEN UNCHANGED <<storeVars, alive, rendering, sceneVars, now>>
       ELSE /\ BagSize(requests) < MaxRequests
            /\ isLoading' = TRUE
            /\ requests' = requests (+) SetToBag({PutRequest(Val(currentTopology))})
            /\ UNCHANGED <<currentTopology, selectedObject, alive, rendering, sceneVars, now>>

saveCurrentTopologySuccess(req, savedTopology) ==
    /\ req.method = "PUT" /\ BagIn(req, requests)
    /\ requests' = requests (-) SetToBag({req})
    /\ Emit(savedTopology)
    /\ isLoading' = FALSE
    /\ lastOp' = "saveCurrentTopologyDone"
    /\ calls' = << >>
    /\ UNCHANGED heapVars
    /\ lastCase' = "ok"
    /\ UNCHANGED <<selectedObject, alive, rendering, now>>

\* variant: a failed save falls back like a failed load
saveCurrentTopologyError_Fallback(req) ==
    /\ req.method = "PUT" /\ BagIn(req, requests)
    /\ requests' = requests (-) SetToBag({req})
    /\ Emit(getFallbackTopology)
    /\ isLoading' = FALSE
    /\ lastOp' = "saveCurrentTopologyDone"
    /\ calls' = << >>
    /\ UNCHANGED heapVars
    /\ lastCase' = "error"
    /\ UNCHANGED <<selectedObject, alive, rendering, now>>

saveCurrentTopologyError(req) ==
    /\ req.method = "PUT" /\ BagIn(req, requests)
    /\ requests' = requests (-) SetToBag({req})
    /\ isLoading' = FALSE
    /\ lastOp' = "saveCurrentTopologyDone"
    /\ calls' = << >>
    /\ UNCHANGED heapVars
    /\ lastCase' = "error"
    /\ UNCHANGED <<currentTopology, selectedObject, alive, rendering, sceneVars, now>>

\* variant: the optional auto-save, a PUT issued with the local update
addModelInstanceStep_AutoSave(model) ==
    IF currentTopology # None
    THEN /\ Len(Val(currentTopology).models) < MaxModels
         /\ Emit(addModelInstanceTopo(Val(currentTopology), model))
         /\ isLoading' = TRUE
         /\ requests' = requests (+) SetToBag({PutRequest(Val(currentTopology))})
         /\ UNCHANGED <<selectedObject, alive, rendering, now>>
    ELSE UNCHANGED <<storeVars, alive, rendering, sceneVars, now>>

addModelInstanceStep(model) ==
    IF currentTopology # None
    THEN /\ Len(Val(currentTopology).models) < MaxModels
         /\ Emit(addModelInstanceTopo(Val(currentTopology), model))
         /\ UNCHANGED <<selectedObject, isLoading, requests, alive, rendering, now>>
    ELSE UNCHANGED <<storeVars, alive, rendering, sceneVars, now>>

addModelInstance(model) ==
    /\ lastOp' = "addModelInstance"
    /\ calls' = << >>
    /\ UNCHANGED heapVars
    /\ lastCase' = IF currentTopology = None THEN "none" ELSE "added"
    /\ addModelInstanceStep(model)

\* the selection removeModelInstance leaves
SelectionAfterRemove(sel, modelId) ==
    IF IsSome(sel) /\ Val(sel).modelId = modelId THEN None ELSE sel

removeModelInstanceStep(modelId) ==
    IF currentTopology # None
    THEN /\ Emit(removeModelInstanceTopo(Val(currentTopology), modelId))
         /\ selectedObject' = SelectionAfterRemove(selectedObject, modelId)
         /\ UNCHANGED <<isLoading, requests, alive, rendering, now>>
    ELSE UNCHANGED <<storeVars, alive, rendering, sceneVars, now>>

HasModel(t, modelId) == \E i \in 1..Len(t.models) : t.models[i].id = modelId

RemoveCase(modelId) ==
    IF currentTopology = None THEN "none"
    ELSE IF HasModel(Val(currentTopology), modelId) THEN "removed" ELSE "absent"

removeModelInstance(modelId) ==
    /\ lastOp' = "removeModelInstance"
    /\ calls' = << >>
    /\ UNCHANGED heapVars
    /\ lastCase' = RemoveCase(modelId)
    /\ removeModelInstanceStep(modelId)

updatePortState(modelId, portName, newStatus, newBlinking) ==
    /\ lastOp' = "updatePortState"
    /\ calls' = << >>
    /\ UNCHANGED heapVars
    /\ LET upd == IF currentTopology = None THEN None
                  ELSE updatePortStateTopo(Val(currentTopology), modelId, portName,
                                           newStatus, newBlinking) IN
       /\ lastCase' = IF upd # None THEN "updated" ELSE "none"
       /\ IF upd # None
          THEN /\ Emit(Val(upd))
               /\ UNCHANGED <<selectedObject, isLoading, requests, alive, rendering, now>>
          ELSE UNCHANGED <<storeVars, alive, rendering, sceneVars, now>>

addCableConnection(connection, rnd) ==
    LET c == [connection EXCEPT !.id = CableIdFor(connection, now, rnd)] IN
    /\ lastOp' = "addCableConnection"
    /\ calls' = << >>
    /\ UNCHANGED heapVars
    /\ lastCase' = IF currentTopology = None THEN "none"
                   ELSE IF connection.id = <<>> THEN "generated" ELSE "added"
    /\ IF currentTopology # None
       THEN /\ Len(Val(currentTopology).connections) < MaxConns
            /\ Emit(addCableConnectionTopo(Val(currentTopology), c))
            /\ UNCHANGED <<selectedObject, isLoading, requests, alive, rendering, now>>
       ELSE UNCHANGED <<storeVars, alive, rendering, sceneVars, now>>

removeCableConnection(cableId) ==
    /\ lastOp' = "removeCableConnection"
    /\ calls' = << >>
    /\ UNCHANGED heapVars
    /\ lastCase' = IF currentTopology = None THEN "none" ELSE "filtered"
    /\ IF currentTopology # None
       THEN /\ Emit(removeCableConnectionTopo(Val(currentTopology), cableId))
            /\ UNCHANGED <<selectedObject, isLoading, requests, alive, rendering, now>>
       ELSE UNCHANGED <<storeVars, alive, rendering, sceneVars, now>>

SelectedObjectInfo(modelId, objectName, objectType) ==
    [modelId |-> modelId, objectName |-> objectName, objectType |-> objectType]

setSelectedObject(modelId, objectName, objectType) ==
    /\ selectedObject' = Some(SelectedObjectInfo(modelId, objectName, objectType))
    /\ lastOp' = "setSelectedObject"
    /\ calls' = << >>
    /\ UNCHANGED heapVars
    /\ lastCase' = objectType
    /\ UNCHANGED <<currentTopology, isLoading, requests, alive, rendering, sceneVars, now>>

----------------------------------------------------------------------------
(* ThreeSceneService: asynchronous completions, frames and clicks *)

SceneObject(job) == [name |-> job.id, url |-> job.url]

\* loadAsync resolved: the rest of addModelToScene, then the component's
\* .then callback applying modelData.ports
addModelToSceneLoaded(job) ==
    /\ BagIn(job, loading)
    /\ loading' = loading (-) SetToBag({job})
    /\ sceneChildren' = sceneChildren (+) SetToBag({SceneObject(job)})
    /\ loadedModels' = ApplyPorts(RegisterModel(loadedModels, job.id, job.url),
                                  job.id, job.ports, 1)
    /\ cables' = ApplyPortsCables(
                     InitIndicatorsCables(cables, loadedModels, job.id,
                                          AssetIndicators(job.url)),
                     RegisterModel(loadedModels, job.id, job.url),
                     job.id, job.ports, 1)
    /\ UNCHANGED <<cableLoading, sceneCables>>
    /\ lastOp' = "addModelToSceneLoaded"
    /\ calls' = << >>
    /\ UNCHANGED heapVars
    /\ lastCase' = IF job.id \in DOMAIN loadedModels THEN "replaced" ELSE "registered"
    /\ UNCHANGED <<storeVars, alive, rendering, now>>

\* loadAsync rejected: the error is caught and logged, the promise resolves
\* and the .then callback still runs
addModelToSceneFailed(job) ==
    /\ BagIn(job, loading)
    /\ loading' = loading (-) SetToBag({job})
    /\ loadedModels' = ApplyPorts(loadedModels, job.id, job.ports, 1)
    /\ cables' = ApplyPortsCables(cables, loadedModels, job.id, job.ports, 1)
    /\ UNCHANGED <<cableLoading, sceneCables>>
    /\ lastOp' = "addModelToSceneFailed"
    /\ calls' = << >>
    /\ UNCHANGED heapVars
    /\ lastCase' = "failed"
    /\ UNCHANGED <<storeVars, sceneChildren, alive, rendering, now>>

CableJob(cableInstanceId, source, target) ==
    [id |-> cableInstanceId, source |-> source, target |-> target]

\* the two guards of connectCable: both models loaded, both attach points there
CanConnect(lm, source, target) ==
    /\ source.modelId \in DOMAIN lm
    /\ target.modelId \in DOMAIN lm
    /\ source.portAttachName \in lm[source.modelId].portAttachPoints
    /\ target.portAttachName \in lm[target.modelId].portAttachPoints

\* connectCable up to `await loader.loadAsync(cableModelUrl)`
connectCable(cableInstanceId, source, target) ==
    /\ lastOp' = "connectCable"
    /\ calls' = << >>
    /\ UNCHANGED heapVars
    /\ lastCase' = IF source.modelId \notin DOMAIN loadedModels
                      \/ target.modelId \notin DOMAIN loadedModels THEN "nomodel"
                   ELSE IF ~CanConnect(loadedModels, source, target) THEN "noattach"
                   ELSE "loading"
    /\ IF CanConnect(loadedModels, source, target)
       THEN /\ BagSize(cableLoading) < MaxCableLoads
            /\ cableLoading' = cableLoading (+)
                                  SetToBag({CableJob(cableInstanceId, source, target)})
            /\ UNCHANGED <<sceneChildren, loadedModels, loading, cables, sceneCables>>
       ELSE UNCHANGED sceneVars
    /\ UNCHANGED <<storeVars, alive, rendering, now>>

\* loadAsync resolved: the cylinder mesh is added to the scene and registered,
\* then updateCableVisualsForPort colors the cables of the source port
connectCableLoaded(job) ==
    /\ BagIn(job, cableLoading)
    /\ cableLoading' = cableLoading (-) SetToBag({job})
    /\ sceneCables' = sceneCables (+) SetToBag({job.id})
    /\ LET registered == [c \in DOMAIN cables \cup {job.id} |->
                            IF c = job.id THEN NewCableInfo(job.source, job.target)
                            ELSE cables[c]]
       IN cables' = updateCableVisualsForPort(
                       registered, loadedModels, job.source.modelId,
                       ReplaceToken(job.source.portAttachName, "_Attach", <<"_Indicator">>))
    /\ lastOp' = "connectCableLoaded"
    /\ calls' = << >>
    /\ UNCHANGED heapVars
    /\ lastCase' = IF job.id \in DOMAIN cables THEN "replaced" ELSE "registered"
    /\ UNCHANGED <<storeVars, sceneChildren, loadedModels, loading, alive, rendering, now>>

\* loadAsync rejected: the error is caught and logged
connectCableFailed(job) ==
    /\ BagIn(job, cableLoading)
    /\ cableLoading' = cableLoading (-) SetToBag({job})
    /\ lastOp' = "connectCableFailed"
    /\ calls' = << >>
    /\ UNCHANGED heapVars
    /\ lastCase' = "failed"
    /\ UNCHANGED <<storeVars, sceneChildren, loadedModels, loading, cables, sceneCables,
                   alive, rendering, now>>

\* the registry and the scene after disconnectCable(cableId)
disconnectCableIn(cb, sc, cableId) ==
    IF cableId \in DOMAIN cb
    THEN [cb |-> [c \in DOMAIN cb \ {cableId} |-> cb[c]],
          sc |-> IF BagIn(cableId, sc) THEN sc (-) SetToBag({cableId}) ELSE sc]
    ELSE [cb |-> cb, sc |-> sc]

disconnectCable(cableId) ==
    /\ LET r == disconnectCableIn(cables, sceneCables, cableId) IN
       cables' = r.cb /\ sceneCables' = r.sc
    /\ lastOp' = "disconnectCable"
    /\ calls' = << >>
    /\ UNCHANGED heapVars
    /\ lastCase' = IF cableId \in DOMAIN cables THEN "removed" ELSE "absent"
    /\ UNCHANGED <<storeVars, sceneChildren, loadedModels, loading, cableLoading,
                   alive, rendering, now>>

\* removeModelFromScene: the cables of the model are disconnected first
RECURSIVE DisconnectAll(_, _, _)
DisconnectAll(cb, sc, ids) ==
    IF ids = {} THEN [cb |-> cb, sc |-> sc]
    ELSE LET c == CHOOSE x \in ids : TRUE
             r == disconnectCableIn(cb, sc, c)
         IN DisconnectAll(r.cb, r.sc, ids \ {c})

removeModelFromScene(modelInstanceId) ==
    /\ lastOp' = "removeModelFromScene"
    /\ calls' = << >>
    /\ UNCHANGED heapVars
    /\ lastCase' = IF modelInstanceId \in DOMAIN loadedModels THEN "removed" ELSE "absent"
    /\ IF modelInstanceId \in DOMAIN loadedModels
       THEN /\ LET r == DisconnectAll(cables, sceneCables,
                           { c \in DOMAIN cables :
                                \/ cables[c].source.modelId = modelInstanceId
                                \/ cables[c].target.modelId = modelInstanceId })
               IN cables' = r.cb /\ sceneCables' = r.sc
            /\ IF \E obj \in BagToSet(sceneChildren) : obj.name = modelInstanceId
               THEN \E obj \in BagToSet(sceneChildren) :
                       /\ obj.name = modelInstanceId
                       /\ sceneChildren' = sceneChildren (-) SetToBag({obj})
               ELSE UNCHANGED sceneChildren
            /\ loadedModels' = [x \in DOMAIN loadedModels \ {modelInstanceId} |->
                                  loadedModels[x]]
            /\ UNCHANGED <<loading, cableLoading>>
       ELSE UNCHANGED sceneVars
    /\ UNCHANGED <<storeVars, alive, rendering, now>>

\* one callback of the requestAnimationFrame loop: updateScene, then render.
\* The loop is never cancelled, so it outlives the component.
animate ==
    /\ rendering
    /\ loadedModels' = updateScene(loadedModels, now)
    /\ lastOp' = "animate"
    /\ calls' = <<"updateScene", "render">>
    /\ UNCHANGED heapVars
    /\ lastCase' = "frame"
    /\ UNCHANGED <<storeVars, sceneChildren, loading, cables, cableLoading, sceneCables,
                   alive, rendering, now>>

\* variant: a click that selects nothing clears the selection
canvasClick_Clearing(hit) ==
    /\ alive
    /\ LET ev == IF hit = None THEN None ELSE onCanvasClick(Val(hit), loadedModels) IN
       /\ selectedObject' = ev
       /\ lastCase' = IF ev # None THEN Val(ev).objectType
                      ELSE IF hit = None THEN "nothing" ELSE "unowned"
    /\ lastOp' = "canvasClick"
    /\ calls' = << >>
    /\ UNCHANGED heapVars
    /\ UNCHANGED <<currentTopology, isLoading, requests, alive, rendering, sceneVars, now>>

\* the click listener of the canvas, with the component's onObjectSelected
\* subscription calling setSelectedObject on the emitted event
canvasClick(hit) ==
    /\ alive
    /\ LET ev == IF hit = None THEN None ELSE onCanvasClick(Val(hit), loadedModels) IN
       /\ selectedObject' = IF ev # None THEN ev ELSE selectedObject
       /\ lastCase' = IF ev # None THEN Val(ev).objectType
                      ELSE IF hit = None THEN "nothing" ELSE "unowned"
    /\ lastOp' = "canvasClick"
    /\ calls' = << >>
    /\ UNCHANGED heapVars
    /\ UNCHANGED <<currentTopology, isLoading, requests, alive, rendering, sceneVars, now>>

----------------------------------------------------------------------------
(* TopologyViewerComponent *)

\* variant: the render loop is started before initScene
ngOnInit_LoopFirst ==
    /\ ~alive
    /\ alive' = TRUE
    /\ rendering' = TRUE
    /\ sceneChildren' = EmptyBag
    /\ LET lm0 == updateScene(loadedModels, now) IN
       IF currentTopology # None
       THEN LET r == Subscribe(Val(currentTopology).models, 1, lm0, loading) IN
            /\ BagSize(r.ld) <= MaxLoads
            /\ loadedModels' = r.lm
            /\ loading' = r.ld
            /\ cables' = SubscribeCables(Val(currentTopology).models, 1, lm0, cables)
       ELSE loadedModels' = lm0 /\ UNCHANGED <<loading, cables>>
    /\ sceneCables' = EmptyBag
    /\ UNCHANGED cableLoading
    /\ lastOp' = "ngOnInit"
    /\ calls' = <<"updateScene", "render", "initScene">> \o
                (IF currentTopology # None
                 THEN [i \in 1..Len(Val(currentTopology).models) |-> "addModelToScene"]
                 ELSE << >>)
    /\ UNCHANGED heapVars
    /\ lastCase' = "created"
    /\ UNCHANGED <<storeVars, now>>

\* initScene (a new, empty THREE.Scene), the first frame of the render loop,
\* then the topology subscription, which replays the store's current value
ngOnInit ==
    /\ ~alive
    /\ alive' = TRUE
    /\ rendering' = TRUE
    /\ sceneChildren' = EmptyBag
    /\ LET lm0 == updateScene(loadedModels, now) IN
       IF currentTopology # None
       THEN LET r == Subscribe(Val(currentTopology).models, 1, lm0, loading) IN
            /\ BagSize(r.ld) <= MaxLoads
            /\ loadedModels' = r.lm
            /\ loading' = r.ld
            /\ cables' = SubscribeCables(Val(currentTopology).models, 1, lm0, cables)
       ELSE loadedModels' = lm0 /\ UNCHANGED <<loading, cables>>
    /\ sceneCables' = EmptyBag
    /\ UNCHANGED cableLoading
    /\ lastOp' = "ngOnInit"
    /\ calls' = <<"initScene", "updateScene", "render">> \o
                (IF currentTopology # None
                 THEN [i \in 1..Len(Val(currentTopology).models) |-> "addModelToScene"]
                 ELSE << >>)
    /\ UNCHANGED heapVars
    /\ lastCase' = "created"
    /\ UNCHANGED <<storeVars, now>>

\* subscriptions.unsubscribe(), then dispose(): the registries are emptied
ngOnDestroy ==
    /\ alive
    /\ alive' = FALSE
    /\ loadedModels' = EmptyFn
    /\ cables' = EmptyFn
    /\ UNCHANGED <<cableLoading, sceneCables>>
    /\ lastOp' = "ngOnDestroy"
    /\ calls' = << >>
    /\ UNCHANGED heapVars
    /\ lastCase' = "destroyed"
    /\ UNCHANGED <<storeVars, rendering, sceneChildren, loading, now>>

SwitchId(t) == <<"switch_instance_", ToString(t)>>

\* getModelDefinition('Switch_ModelA') answers synchronously with the asset
\* url and an empty port list
NewSwitch(t) == Model(SwitchId(t), SwitchUrl, << >>)

addSwitch ==
    /\ alive
    /\ lastOp' = "addSwitch"
    /\ calls' = << >>
    /\ UNCHANGED heapVars
    /\ lastCase' = IF currentTopology = None THEN "none" ELSE "added"
    /\ addModelInstanceStep(NewSwitch(now))

\* variant: only a selected device is deleted, a selected port is ignored
deleteSelectedModel_DeviceOnly ==
    /\ alive
    /\ lastOp' = "deleteSelectedModel"
    /\ calls' = << >>
    /\ UNCHANGED heapVars
    /\ lastCase' = IF selectedObject = None THEN "unselected"
                   ELSE IF currentTopology = None THEN "none"
                   ELSE IF HasModel(Val(currentTopology), Val(selectedObject).modelId)
                   THEN "removed" ELSE "absent"
    /\ IF selectedObject # None /\ Val(selectedObject).objectType = "device"
       THEN removeModelInstanceStep(Val(selectedObject).modelId)
       ELSE UNCHANGED <<storeVars, alive, rendering, sceneVars, now>>

deleteSelectedModel ==
    /\ alive
    /\ lastOp' = "deleteSelectedModel"
    /\ calls' = << >>
    /\ UNCHANGED heapVars
    /\ lastCase' = IF selectedObject = None THEN "unselected"
                   ELSE IF currentTopology = None THEN "none"
                   ELSE IF HasModel(Val(currentTopology), Val(selectedObject).modelId)
                   THEN "removed" ELSE "absent"
    /\ IF selectedObject # None /\ Val(selectedObject).modelId # <<>>
       THEN removeModelInstanceStep(Val(selectedObject).modelId)
       ELSE UNCHANGED <<storeVars, alive, rendering, sceneVars, now>>

\* time passes
tick ==
    /\ now < StartTime + MaxTicks * TickMs
    /\ now' = now + TickMs
    /\ lastOp' = "tick"
    /\ calls' = << >>
    /\ UNCHANGED heapVars
    /\ lastCase' = "tick"
    /\ UNCHANGED <<storeVars, alive, rendering, sceneVars>>

----------------------------------------------------------------------------
(* Object-level view of updatePortState.  JavaScript objects and arrays    *)
(* are cells of `heap`, referred to by their index; a spread or array copy *)
(* allocates a new cell holding the same references.                       *)

MaxEmitted == 3     \* topology objects emitted in the object-level view

TopologyCell(t, modelsRef, connsRef) ==
    [kind |-> "topology", id |-> t.id, name |-> t.name,
     models |-> modelsRef, connections |-> connsRef]
ArrayCell(items) == [kind |-> "array", items |-> items]
ModelCell(m, portsRef) ==
    [kind |-> "model", id |-> m.id, assetUrl |-> m.assetUrl, ports |-> portsRef]
PortCell(p) == [kind |-> "port", name |-> p.name, status |-> p.status, blinking |-> p.blinking]
ConnCell(c) == [kind |-> "connection", value |-> c]

\* cells of an array of leaf objects: the objects, then the array
LeafArray(h, cells) ==
    LET base == Len(h) IN
    [h |-> h \o cells \o << ArrayCell([i \in 1..Len(cells) |-> base + i]) >>,
     ref |-> base + Len(cells) + 1]

\* the models of a parsed response: each model's ports, then the model
RECURSIVE AllocModels(_, _, _, _)
AllocModels(h, models, i, refs) ==
    IF i > Len(models)
    THEN [h |-> Append(h, ArrayCell(refs)), ref |-> Len(h) + 1]
    ELSE LET ps == LeafArray(h, [k \in 1..Len(models[i].ports) |-> PortCell(models[i].ports[k])])
             h2 == Append(ps.h, ModelCell(models[i], ps.ref))
         IN AllocModels(h2, models, i + 1, Append(refs, Len(h2)))

\* a freshly parsed TopologyLayout
AllocTopology(h, t) ==
    LET ms == AllocModels(h, t.models, 1, << >>)
        cs == LeafArray(ms.h, [k \in 1..Len(t.connections) |-> ConnCell(t.connections[k])])
    IN [h |-> Append(cs.h, TopologyCell(t, ms.ref, cs.ref)), ref |-> Len(cs.h) + 1]

\* the TopologyLayout value an observer reads through reference `ref`
DeepPorts(h, ref) ==
    [k \in 1..Len(h[ref].items) |->
        LET c == h[h[ref].items[k]] IN Port(c.name, c.status, c.blinking)]
DeepModels(h, ref) ==
    [k \in 1..Len(h[ref].items) |->
        LET c == h[h[ref].items[k]] IN Model(c.id, c.assetUrl, DeepPorts(h, c.ports))]
DeepConns(h, ref) == [k \in 1..Len(h[ref].items) |-> h[h[ref].items[k]].value]
Deep(h, ref) ==
    [id |-> h[ref].id, name |-> h[ref].name,
     models |-> DeepModels(h, h[ref].models),
     connections |-> DeepConns(h, h[ref].connections)]

\* tap(topology => _currentTopology.next(topology)) on a parsed response
heapLoadTopology(t) ==
    /\ Len(emitted) < MaxEmitted
    /\ LET a == AllocTopology(heap, t) IN
       /\ heap' = a.h
       /\ topoRef' = Some(a.ref)
       /\ emitted' = Append(emitted, a.ref)
    /\ lastOp' = "heapLoadTopology"
    /\ calls' = << >>
    /\ lastCase' = "ok"
    /\ UNCHANGED <<storeVars, alive, rendering, sceneVars, now>>

\* variant: the ports array is not copied, the new port object is stored
\* into the array the previous topology shares
updatePortStateHeap_SharedPorts(h, ref, modelId, portName, newStatus, newBlinking) ==
    LET currentTopo == h[ref]
        models == h[currentTopo.models].items
        modelIndex == FindIndex([i \in 1..Len(models) |-> h[models[i]].id = modelId])
    IN
    IF modelIndex = 0 THEN [found |-> FALSE, h |-> h, ref |-> ref]
    ELSE
    LET model == h[models[modelIndex]]
        ports == h[model.ports].items
        portIndex == FindIndex([j \in 1..Len(ports) |-> h[ports[j]].name = portName])
    IN
    IF portIndex = 0 THEN [found |-> FALSE, h |-> h, ref |-> ref]
    ELSE
    LET n == Len(h)
        topoCopy == [currentTopo EXCEPT !.models = n + 2]
        modelsCopy == ArrayCell([models EXCEPT ![modelIndex] = n + 3])
        modelCopy == model
        portCopy == [h[ports[portIndex]] EXCEPT !.status = newStatus,
                                                 !.blinking = newBlinking]
        shared == [h EXCEPT ![model.ports] =
                      ArrayCell([ports EXCEPT ![portIndex] = n + 4])]
    IN [found |-> TRUE,
        h |-> shared \o << topoCopy, modelsCopy, modelCopy, portCopy >>,
        ref |-> n + 1]

\* the heap and reference updatePortState leaves, found = FALSE when it
\* emits nothing
updatePortStateHeap(h, ref, modelId, portName, newStatus, newBlinking) ==
    LET currentTopo == h[ref]
        models == h[currentTopo.models].items
        modelIndex == FindIndex([i \in 1..Len(models) |-> h[models[i]].id = modelId])
    IN
    IF modelIndex = 0 THEN [found |-> FALSE, h |-> h, ref |-> ref]
    ELSE
    LET model == h[models[modelIndex]]
        ports == h[model.ports].items
        portIndex == FindIndex([j \in 1..Len(ports) |-> h[ports[j]].name = portName])
    IN
    IF portIndex = 0 THEN [found |-> FALSE, h |-> h, ref |-> ref]
    ELSE
    LET n == Len(h)
        \* { ...currentTopology }, then .models = [...models]
        topoCopy == [currentTopo EXCEPT !.models = n + 2]
        \* models[modelIndex] = { ...model }
        modelsCopy == ArrayCell([models EXCEPT ![modelIndex] = n + 3])
        \* .ports = [...ports]
        modelCopy == [model EXCEPT !.ports = n + 4]
        \* ports[portIndex] = { ...port, status, blinking }
        portsCopy == ArrayCell([ports EXCEPT ![portIndex] = n + 5])
        portCopy == [h[ports[portIndex]] EXCEPT !.status = newStatus,
                                                 !.blinking = newBlinking]
    IN [found |-> TRUE,
        h |-> h \o << topoCopy, modelsCopy, modelCopy, portsCopy, portCopy >>,
        ref |-> n + 1]

heapUpdatePortState(modelId, portName, newStatus, newBlinking) ==
    /\ lastOp' = "heapUpdatePortState"
    /\ calls' = << >>
    /\ UNCHANGED <<storeVars, alive, rendering, sceneVars, now>>
    /\ IF topoRef = None
       THEN lastCase' = "none" /\ UNCHANGED heapVars
       ELSE LET r == updatePortStateHeap(heap, Val(topoRef), modelId, portName,
                                         newStatus, newBlinking) IN
            IF r.found
            THEN /\ Len(emitted) < MaxEmitted
                 /\ heap' = r.h
                 /\ topoRef' = Some(r.ref)
                 /\ emitted' = Append(emitted, r.ref)
                 /\ lastCase' = "updated"
            ELSE lastCase' = "absent" /\ UNCHANGED heapVars

----------------------------------------------------------------------------
(* Specifications *)

\* selections made through setSelectedObject
Selections == { <<M1, M1, "device">>, <<M2, Indicator("P1"), "port">> }

\* (status, blinking) pairs passed to updatePortState
PortUpdates == { <<"inactive", TRUE>>, <<"error", FALSE>> }

\* what the backend holds under a layout id
ServerLayout(layoutId) == IF layoutId = "main" THEN TopoMain ELSE TopoLab

\* layouts `ids` are loaded from the backend
LoadNext(ids) ==
    \/ \E id \in ids : loadTopology(id)
    \/ \E req \in BagToSet(requests) : loadTopologySuccess(req, ServerLayout(req.layoutId))
    \/ \E req \in BagToSet(requests) : loadTopologyError(req)

\* every update of the store through its public API
StoreNext ==
    \/ LoadNext(LayoutIds)
    \/ saveCurrentTopology
    \/ \E req \in BagToSet(requests), t \in ServerTopologies :
          saveCurrentTopologySuccess(req, t)
    \/ \E req \in BagToSet(requests) : saveCurrentTopologyError(req)
    \/ \E m \in NewModels : addModelInstance(m)
    \/ \E id \in ModelIds : removeModelInstance(id)
    \/ \E id \in {M1, M3}, p \in PortNames, u \in PortUpdates :
          updatePortState(id, p, u[1], u[2])
    \/ \E c \in NewConns, rnd \in {"k3x9a"} : addCableConnection(c, rnd)
    \/ \E id \in CableIds : removeCableConnection(id)
    \/ \E sel \in Selections : setSelectedObject(sel[1], sel[2], sel[3])

\* the component with its canvas: models load, the user clicks and deletes
Next ==
    \/ LoadNext({"main"})
    \/ ngOnInit
    \/ ngOnDestroy
    \/ \E job \in BagToSet(loading) : addModelToSceneLoaded(job)
    \/ \E job \in BagToSet(loading) : addModelToSceneFailed(job)
    \/ \E hit \in {None} \cup {Some(h) : h \in Hits} : canvasClick(hit)
    \/ deleteSelectedModel

\* the component's add button next to removals, over time
EditNext ==
    \/ LoadNext({"lab"})
    \/ ngOnInit
    \/ ngOnDestroy
    \/ \E job \in BagToSet(loading) : addModelToSceneLoaded(job)
    \/ \E job \in BagToSet(loading) : addModelToSceneFailed(job)
    \/ addSwitch
    \/ \E id \in {M2, SwitchId(StartTime)} : removeModelInstance(id)
    \/ tick

\* the scene's port indicators while the component lives: a layout arrives,
\* port states change, models load, frames are drawn
SceneNext ==
    \/ LoadNext({"main"})
    \/ \E p \in PortNames, u \in PortUpdates : updatePortState(M1, p, u[1], u[2])
    \/ ngOnInit
    \/ animate
    \/ \E job \in BagToSet(loading) : addModelToSceneLoaded(job)
    \/ \E job \in BagToSet(loading) : addModelToSceneFailed(job)
    \/ tick

\* cable ends offered to connectCable: a pair that exists once both models
\* are loaded, a model that is never loaded, an attach point the router lacks
CableEnds ==
    { << [modelId |-> M1, portAttachName |-> Attach("P1")],
         [modelId |-> M2, portAttachName |-> Attach("P1")] >>,
      << [modelId |-> M1, portAttachName |-> Attach("P1")],
         [modelId |-> M3, portAttachName |-> Attach("P1")] >>,
      << [modelId |-> M1, portAttachName |-> Attach("P2")],
         [modelId |-> M2, portAttachName |-> Attach("P2")] >> }

\* the scene service driven through its public API while the component shows
\* a layout: cables are connected and disconnected, models removed
CableNext ==
    \/ LoadNext({"main"})
    \/ ngOnInit
    \/ ngOnDestroy
    \/ \E job \in BagToSet(loading) :
          BagSize(sceneChildren) < MaxRoots /\ addModelToSceneLoaded(job)
    \/ \E job \in BagToSet(loading) : addModelToSceneFailed(job)
    \/ \E e \in CableEnds : connectCable(<<"c1">>, e[1], e[2])
    \/ \E job \in BagToSet(cableLoading) :
          BagSize(sceneCables) < MaxCableMeshes /\ connectCableLoaded(job)
    \/ \E job \in BagToSet(cableLoading) : connectCableFailed(job)
    \/ disconnectCable(<<"c1">>)
    \/ removeModelFromScene(M2)

\* the store's objects: layouts arrive and port states are patched
HeapNext ==
    \/ \E t \in ServerTopologies : heapLoadTopology(t)
    \/ \E id \in ModelIds, p \in PortNames, u \in PortUpdates :
          heapUpdatePortState(id, p, u[1], u[2])
    \/ \E sel \in Selections : setSelectedObject(sel[1], sel[2], sel[3])

\* the store driven through its public API, no component created
StoreSpec == Init /\ [][StoreNext]_vars

\* the viewer component with both services: selecting and editing
Spec == Init /\ [][Next]_vars

\* the viewer component with both services: adding and removing models
EditSpec == Init /\ [][EditNext]_vars

\* the viewer component with both services: the port indicators
SceneSpec == Init /\ [][SceneNext]_vars

\* the store's topology as JavaScript objects
CableSpec == Init /\ [][CableNext]_vars

\* the component with its canvas and its render loop
LiveNext == Next \/ animate

\* what the runtime schedules without the user: a pending HTTP request
\* completes, a pending asset load settles, the next animation frame is drawn
Completions ==
    \/ \E req \in BagToSet(requests) : loadTopologySuccess(req, ServerLayout(req.layoutId))
    \/ \E req \in BagToSet(requests) : loadTopologyError(req)
    \/ \E job \in BagToSet(loading) : addModelToSceneLoaded(job)
    \/ \E job \in BagToSet(loading) : addModelToSceneFailed(job)

\* Next with every pending completion eventually delivered and frames drawn;
\* the user (clicks, delete, navigation) is free to do nothing
LiveSpec ==
    Init /\ [][LiveNext]_vars /\ WF_vars(Completions) /\ WF_vars(animate)

HeapSpec == Init /\ [][HeapNext]_vars

----------------------------------------------------------------------------
(* Properties *)

\* new is old without the elements satisfying Drop, the others in their order
KeptInOrder(old, new, Drop(_)) ==
    \E f \in [1..Len(new) -> 1..Len(old)] :
        /\ \A i \in 1..Len(new) : new[i] = old[f[i]] /\ ~Drop(old[f[i]])
        /\ \A i, j \in 1..Len(new) : i < j => f[i] < f[j]
        /\ \A k \in 1..Len(old) : ~Drop(old[k]) => \E i \in 1..Len(new) : f[i] = k

Touches(c, id) == c.source.modelId = id \/ c.target.modelId = id

\* C1: after removeModelInstance(id) on a loaded topology no model has that
\* id and no connection starts or ends at it; every other model and every
\* other connection is kept, in its original order.
C1_RemoveModelInstance ==
    [][\A id \in ModelIds :
          (removeModelInstance(id) /\ currentTopology # None) =>
             /\ currentTopology' # None
             /\ LET old == Val(currentTopology)
                    new == Val(currentTopology') IN
                /\ \A i \in 1..Len(new.models) : new.models[i].id # id
                /\ \A i \in 1..Len(new.connections) : ~Touches(new.connections[i], id)
                /\ KeptInOrder(old.models, new.models, LAMBDA m : m.id = id)
                /\ KeptInOrder(old.connections, new.connections,
                               LAMBDA c : Touches(c, id))]_vars

\* a model was removed while another model and a connection stayed
C1_Witness ==
    /\ lastOp = "removeModelInstance" /\ lastCase = "removed"
    /\ currentTopology # None
    /\ Len(Val(currentTopology).models) >= 1
    /\ Len(Val(currentTopology).connections) >= 1

\* C2: with a topology loaded and an object selected, deleteSelectedModel
\* removes the model named by the selection's modelId and leaves nothing
\* selected; with nothing selected it changes neither topology nor selection.
C2_DeleteSelectedModel ==
    [][deleteSelectedModel =>
          /\ (currentTopology # None /\ selectedObject # None) =>
                /\ currentTopology' # None
                /\ ~HasModel(Val(currentTopology'), Val(selectedObject).modelId)
                /\ selectedObject' = None
          /\ selectedObject = None =>
                /\ currentTopology' = currentTopology
                /\ selectedObject' = None]_vars

\* the selected model was in the topology and has been deleted
C2_Witness ==
    /\ lastOp = "deleteSelectedModel" /\ lastCase = "removed"
    /\ selectedObject = None
    /\ currentTopology # None

\* the event a click on `hit` must produce, read off the hit object alone:
\* a mesh under a registered model root selects the port (an indicator mesh)
\* or the device (any other mesh)
ExpectedSelection(hit) ==
    IF hit = None \/ Val(hit)[2] \notin DOMAIN loadedModels
    THEN None
    ELSE IF EndsWith(Val(hit)[1], "_Indicator")
    THEN Some(SelectedObjectInfo(Val(hit)[2], Val(hit)[1], "port"))
    ELSE Some(SelectedObjectInfo(Val(hit)[2], Val(hit)[2], "device"))

\* C3: while the component is alive a click that emits a selection event
\* makes exactly that event the selected object; a click that hits nothing,
\* or an object of no loaded model, leaves the selected object as it was.
C3_ClickSelects ==
    [][\A hit \in {None} \cup {Some(h) : h \in Hits} :
          canvasClick(hit) =>
             /\ alive
             /\ IF ExpectedSelection(hit) # None
                THEN selectedObject' = ExpectedSelection(hit)
                ELSE selectedObject' = selectedObject]_vars

\* a click on a port indicator of a loaded model selected that port
C3_Witness ==
    /\ lastOp = "canvasClick" /\ lastCase = "port"
    /\ alive
    /\ selectedObject # None
    /\ Val(selectedObject).objectType = "port"
    /\ Val(selectedObject).modelId \in DOMAIN loadedModels

\* C4: loadTopology sets isLoading; when its request completes isLoading is
\* false after a success and after a failure alike; a success makes the
\* response the current topology, a failure makes it the fallback layout
\* (id 'fallback-layout', no models, no connections).
C4_LoadTopology ==
    [][/\ \A id \in LayoutIds : loadTopology(id) => isLoading'
       /\ \A req \in BagToSet(requests), t \in ServerTopologies :
             loadTopologySuccess(req, t) =>
                ~isLoading' /\ currentTopology' = Some(t)
       /\ \A req \in BagToSet(requests) :
             loadTopologyError(req) =>
                /\ ~isLoading'
                /\ currentTopology' # None
                /\ Val(currentTopology').id = "fallback-layout"
                /\ Val(currentTopology').models = << >>
                /\ Val(currentTopology').connections = << >>]_vars

\* a load has failed and the fallback layout is the current topology
C4_Witness ==
    /\ lastOp = "loadTopologyDone" /\ lastCase = "error"
    /\ ~isLoading
    /\ currentTopology = Some(getFallbackTopology)

\* C5: saveCurrentTopology with no topology issues no request and leaves
\* isLoading and the topology as they are; with a topology it sets isLoading
\* and issues exactly one PUT (for that layout); when the PUT completes
\* isLoading is false, a success makes the response the current topology and
\* a failure leaves the current topology as it was.
C5_SaveCurrentTopology ==
    [][/\ saveCurrentTopology =>
             IF currentTopology = None
             THEN UNCHANGED <<requests, isLoading, currentTopology>>
             ELSE /\ isLoading'
                  /\ requests' = requests (+)
                        SetToBag({[method |-> "PUT",
                                   layoutId |-> Val(currentTopology).id]})
                  /\ currentTopology' = currentTopology
       /\ \A req \in BagToSet(requests), t \in ServerTopologies :
             saveCurrentTopologySuccess(req, t) =>
                ~isLoading' /\ currentTopology' = Some(t)
       /\ \A req \in BagToSet(requests) :
             saveCurrentTopologyError(req) =>
                ~isLoading' /\ currentTopology' = currentTopology]_vars

\* a save has failed and the locally edited topology is still there
C5_Witness ==
    /\ lastOp = "saveCurrentTopologyDone" /\ lastCase = "error"
    /\ ~isLoading
    /\ currentTopology # None
    /\ Val(currentTopology) \notin ServerTopologies

\* the five local updates of the store, with any of their inputs
LocalUpdate ==
    \/ \E m \in NewModels : addModelInstance(m)
    \/ \E id \in ModelIds : removeModelInstance(id)
    \/ \E id \in ModelIds, p \in PortNames, u \in PortUpdates :
          updatePortState(id, p, u[1], u[2])
    \/ \E c \in NewConns, rnd \in {"k3x9a"} : addCableConnection(c, rnd)
    \/ \E id \in CableIds : removeCableConnection(id)

\* C6: a local update (addModelInstance, removeModelInstance, updatePortState,
\* addCableConnection, removeCableConnection) issues no request and leaves
\* isLoading alone; a step after which a PUT is in flight that was not before
\* is a saveCurrentTopology step.
C6_LocalUpdates ==
    [][/\ LocalUpdate => UNCHANGED <<requests, isLoading>>
       /\ \A r \in BagToSet(requests') :
             (r.method = "PUT" /\ CopiesIn(r, requests') > CopiesIn(r, requests))
                => saveCurrentTopology]_vars

\* a port was updated locally while a request was in flight and isLoading set
C6_Witness ==
    /\ lastOp = "updatePortState" /\ lastCase = "updated"
    /\ BagSize(requests) = 1
    /\ isLoading

\* C8: addModelInstance on a loaded topology yields the old models followed by
\* the new model, with connections, layout id and name, and the selection
\* unchanged; with no topology loaded the current topology stays null.
C8_AddModelInstance ==
    [][\A m \in NewModels :
          addModelInstance(m) =>
             IF currentTopology = None
             THEN currentTopology' = None /\ selectedObject' = selectedObject
             ELSE /\ currentTopology' # None
                  /\ Val(currentTopology').models
                        = Val(currentTopology).models \o <<m>>
                  /\ Val(currentTopology').connections
                        = Val(currentTopology).connections
                  /\ Val(currentTopology').id = Val(currentTopology).id
                  /\ Val(currentTopology').name = Val(currentTopology).name
                  /\ selectedObject' = selectedObject]_vars

\* a model was appended behind an existing one while something was selected
C8_Witness ==
    /\ lastOp = "addModelInstance" /\ lastCase = "added"
    /\ currentTopology # None
    /\ Len(Val(currentTopology).models) >= 2
    /\ selectedObject # None

\* index of the first model of t with this id that the update addresses, and
\* of the first port of that model with this name; 0 when there is none
TargetModel(t, modelId) ==
    IF \E i \in 1..Len(t.models) : t.models[i].id = modelId
    THEN CHOOSE i \in 1..Len(t.models) :
            /\ t.models[i].id = modelId
            /\ \A k \in 1..(i - 1) : t.models[k].id # modelId
    ELSE 0
TargetPort(m, portName) ==
    IF \E j \in 1..Len(m.ports) : m.ports[j].name = portName
    THEN CHOOSE j \in 1..Len(m.ports) :
            /\ m.ports[j].name = portName
            /\ \A k \in 1..(j - 1) : m.ports[k].name # portName
    ELSE 0

\* new is old with nothing changed but status and blinking of port j of model i
OnlyPortChanged(old, new, i, j, status, blinking) ==
    /\ new.id = old.id /\ new.name = old.name
    /\ new.connections = old.connections
    /\ Len(new.models) = Len(old.models)
    /\ \A a \in 1..Len(old.models) :
          /\ new.models[a].id = old.models[a].id
          /\ new.models[a].assetUrl = old.models[a].assetUrl
          /\ Len(new.models[a].ports) = Len(old.models[a].ports)
          /\ \A b \in 1..Len(old.models[a].ports) :
                IF a = i /\ b = j
                THEN new.models[a].ports[b] =
                        Port(old.models[a].ports[b].name, status, blinking)
                ELSE new.models[a].ports[b] = old.models[a].ports[b]

\* C7: updatePortState changes only status and blinking of the named port of
\* the named model, every other port and model, the connections and the
\* selection staying as they were; every topology object emitted before still
\* reads as it did; when there is no topology, no such model or no such port,
\* nothing is emitted.
C7_UpdatePortState ==
    [][\A id \in ModelIds, p \in PortNames, u \in PortUpdates :
          heapUpdatePortState(id, p, u[1], u[2]) =>
             /\ selectedObject' = selectedObject
             /\ \A k \in 1..Len(emitted) :
                   Deep(heap', emitted[k]) = Deep(heap, emitted[k])
             /\ IF topoRef = None
                THEN UNCHANGED <<topoRef, emitted>>
                ELSE LET old == Deep(heap, Val(topoRef))
                         i == TargetModel(old, id)
                         j == IF i = 0 THEN 0 ELSE TargetPort(old.models[i], p)
                     IN IF j = 0
                        THEN UNCHANGED <<topoRef, emitted>>
                        ELSE /\ topoRef' # None
                             /\ emitted' = Append(emitted, Val(topoRef'))
                             /\ OnlyPortChanged(old, Deep(heap', Val(topoRef')),
                                                i, j, u[1], u[2])]_vars

\* an update emitted a topology that differs from the one emitted before it
C7_Witness ==
    /\ lastOp = "heapUpdatePortState" /\ lastCase = "updated"
    /\ Len(emitted) >= 2
    /\ topoRef = Some(emitted[Len(emitted)])
    /\ Deep(heap, emitted[Len(emitted)]) # Deep(heap, emitted[Len(emitted) - 1])

\* C9: model instance ids are unique: no two models of the current topology
\* have the same id.
C9_UniqueModelIds ==
    currentTopology # None =>
       \A i, j \in 1..Len(Val(currentTopology).models) :
          i # j => Val(currentTopology).models[i].id # Val(currentTopology).models[j].id

\* the port indicators registered in the scene, as <<model id, port name>>
ScenePorts ==
    UNION { { <<id, p>> : p \in DOMAIN loadedModels[id].portIndicators } :
            id \in DOMAIN loadedModels }

\* C10: in every reachable state a port indicator whose current state is
\* 'inactive' has blinking false, and a frame (updateScene) leaves every such
\* indicator exactly as it was: not toggled, not recolored.
C10_InactiveNeverBlinks ==
    /\ [](\A x \in ScenePorts :
            LET info == loadedModels[x[1]].portIndicators[x[2]] IN
            info.currentState = Some("inactive") => info.blinking = Some(FALSE))
    /\ [][animate =>
            \A x \in ScenePorts :
               LET info == loadedModels[x[1]].portIndicators[x[2]] IN
               info.currentState = Some("inactive") =>
                  /\ x[1] \in DOMAIN loadedModels'
                  /\ loadedModels'[x[1]].portIndicators[x[2]] = info]_vars

\* a frame was drawn while an indicator that had blinked is inactive and the
\* topology still asks for that inactive port to blink
C10_Witness ==
    /\ lastOp = "animate"
    /\ currentTopology # None
    /\ \E i \in 1..Len(Val(currentTopology).models) :
          LET m == Val(currentTopology).models[i] IN
          \E j \in 1..Len(m.ports) :
             /\ m.ports[j].status = "inactive" /\ m.ports[j].blinking
             /\ <<m.id, m.ports[j].name>> \in ScenePorts
             /\ LET info == loadedModels[m.id].portIndicators[m.ports[j].name] IN
                /\ info.currentState = Some("inactive")
                /\ info.blinking = Some(FALSE)
                /\ info.lastBlinkTime # None

\* the cables a step registers: new in the registry, or registered anew
\* under an id that was there
RegisteredBy(old, new) ==
    { c \in DOMAIN new : c \notin DOMAIN old
                         \/ new[c].source # old[c].source
                         \/ new[c].target # old[c].target }

\* C11: connectCable registers a cable only between two device ports that
\* exist: a call whose source or target model is not loaded, or whose source
\* or target attach point is missing, leaves the whole scene state as it was;
\* a failed cable load registers nothing and adds nothing to the scene; and a
\* cable that a step registers joins attach points of two loaded models.
C11_ConnectCable ==
    [][/\ \A e \in CableEnds :
             (connectCable(<<"c1">>, e[1], e[2])
              /\ ~CanConnect(loadedModels, e[1], e[2]))
                => UNCHANGED sceneVars
       /\ \A job \in BagToSet(cableLoading) :
             connectCableFailed(job) =>
                UNCHANGED <<cables, sceneCables, sceneChildren, loadedModels>>
       /\ \A c \in RegisteredBy(cables, cables') :
             CanConnect(loadedModels, cables'[c].source, cables'[c].target)]_vars

\* the two error paths alone, the guards judged when connectCable is called
ConnectCableErrorPaths ==
    [][/\ \A e \in CableEnds :
             (connectCable(<<"c1">>, e[1], e[2])
              /\ ~CanConnect(loadedModels, e[1], e[2]))
                => UNCHANGED sceneVars
       /\ \A job \in BagToSet(cableLoading) :
             connectCableFailed(job) =>
                UNCHANGED <<cables, sceneCables, sceneChildren, loadedModels>>]_vars

\* the model has just been removed from the store by the living component
\* and the scene still has it registered
RemovedFromStore(id) ==
    /\ alive
    /\ lastOp = "deleteSelectedModel" /\ lastCase = "removed"
    /\ currentTopology # None
    /\ ~HasModel(Val(currentTopology), id)
    /\ id \in DOMAIN loadedModels

\* C12: after a model is removed from the store while the component is alive,
\* that model is eventually no longer registered in the scene's loadedModels.
C12_DeletionReachesScene ==
    \A id \in {M1, M2} : RemovedFromStore(id) ~> (id \notin DOMAIN loadedModels)

\* every callback that was pending has run: no request and no asset load is
\* in flight
Quiescent == requests = EmptyBag /\ loading = EmptyBag

\* C13: the scene's port indicators follow the store: while the component is
\* alive, once all pending callbacks have run, every port of a model of the
\* current topology that is loaded in the scene, and has an indicator of that
\* name, shows the status the store holds for it.
C13_ScenePortsFollowStore ==
    (alive /\ Quiescent /\ currentTopology # None) =>
       \A i \in 1..Len(Val(currentTopology).models) :
          LET m == Val(currentTopology).models[i] IN
          \A j \in 1..Len(m.ports) :
             <<m.id, m.ports[j].name>> \in ScenePorts =>
                loadedModels[m.id].portIndicators[m.ports[j].name].currentState
                   = Some(m.ports[j].status)

\* positions of a call in a call sequence
CallsAt(cs, name) == { k \in 1..Len(cs) : cs[k] = name }

ListedPorts(job) == { job.ports[k].name : k \in 1..Len(job.ports) }

\* C15: when addModelToScene completes successfully for a model id that was
\* not loaded, every port indicator of that model is initialized: its current
\* state is 'inactive' and it is not blinking.  Judged in the state the
\* completion leaves, on the indicators that the caller's port list does not
\* set afterwards.
C15_IndicatorsInitialized ==
    [][\A job \in BagToSet(loading) :
          (addModelToSceneLoaded(job) /\ job.id \notin DOMAIN loadedModels) =>
             /\ job.id \in DOMAIN loadedModels'
             /\ DOMAIN loadedModels'[job.id].portIndicators = AssetIndicators(job.url)
             /\ \A p \in AssetIndicators(job.url) \ ListedPorts(job) :
                   LET info == loadedModels'[job.id].portIndicators[p] IN
                   /\ info.currentState = Some("inactive")
                   /\ info.blinking = Some(FALSE)]_vars

====
